---- MODULE Spec2Model ----
(***************************************************************************)
(* A model of bot_helper.py: the field validators (Phone, Birthday), the   *)
(* contact Record, the AddressBook directory with its upcoming-birthday    *)
(* query, and the dispatcher commands built on them.                       *)
(*                                                                         *)
(* Text is modelled as a sequence of one-character strings, so that the    *)
(* validators, the date parser and the date formatter are computed as the  *)
(* code computes them.  Names are opaque strings: the code never looks     *)
(* inside a name.  A method is an operator that returns an outcome record  *)
(*   [status, exc, value, self]                                            *)
(* where self is the receiver after the call, also when the call raises.   *)
(***************************************************************************)
EXTENDS Integers, Sequences, FiniteSets, TLC

VARIABLES data, call, ret

vars == <<data, call, ret>>

(***************************************************************************)
(* Bounds of the model.                                                    *)
(***************************************************************************)
\* the longest phones list a record is grown to by add_phone
MaxPhones == 2

(***************************************************************************)
(* Python values.                                                          *)
(***************************************************************************)
PyNone == [cls |-> "NoneType"]

Str(s) == [cls |-> "str", value |-> s]

FieldClasses == {"Field", "Name", "Phone", "Birthday"}

Digits == {"0", "1", "2", "3", "4", "5", "6", "7", "8", "9"}

DigitVal(c) ==
  CASE c = "0" -> 0 [] c = "1" -> 1 [] c = "2" -> 2 [] c = "3" -> 3
    [] c = "4" -> 4 [] c = "5" -> 5 [] c = "6" -> 6 [] c = "7" -> 7
    [] c = "8" -> 8 [] c = "9" -> 9

DigitChar(n) ==
  CASE n = 0 -> "0" [] n = 1 -> "1" [] n = 2 -> "2" [] n = 3 -> "3"
    [] n = 4 -> "4" [] n = 5 -> "5" [] n = 6 -> "6" [] n = 7 -> "7"
    [] n = 8 -> "8" [] n = 9 -> "9"

\* str.isdecimal(): non-empty and every character a decimal digit
isdecimal(s) == Len(s) > 0 /\ \A i \in 1..Len(s) : s[i] \in Digits

(***************************************************************************)
(* Outcomes of a call.                                                     *)
(***************************************************************************)
Ok(v, self) == [status |-> "ok", exc |-> "-", value |-> v, self |-> self]

Raise(e, self) == [status |-> "raise", exc |-> e, value |-> PyNone, self |-> self]

(***************************************************************************)
(* datetime.date                                                           *)
(***************************************************************************)
Date(y, m, d) == [cls |-> "date", y |-> y, m |-> m, d |-> d]

IsLeap(y) == (y % 4 = 0) /\ ((y % 100 # 0) \/ (y % 400 = 0))

DaysInMonth(y, m) ==
  IF m = 2 THEN (IF IsLeap(y) THEN 29 ELSE 28)
  ELSE IF m \in {4, 6, 9, 11} THEN 30 ELSE 31

\* the date constructor's range check
ValidDate(y, m, d) ==
  /\ y >= 1 /\ y <= 9999
  /\ m >= 1 /\ m <= 12
  /\ d >= 1 /\ d <= DaysInMonth(y, m)

RECURSIVE DaysBeforeMonth(_, _)
DaysBeforeMonth(y, m) ==
  IF m = 1 THEN 0 ELSE DaysBeforeMonth(y, m - 1) + DaysInMonth(y, m - 1)

\* date.toordinal(): 1 for 0001-01-01
toordinal(dt) ==
  LET y1 == dt.y - 1
  IN  y1 * 365 + (y1 \div 4) - (y1 \div 100) + (y1 \div 400)
        + DaysBeforeMonth(dt.y, dt.m) + dt.d

\* date.weekday(): Monday is 0, Sunday is 6
weekday(dt) == (toordinal(dt) + 6) % 7

NextDay(dt) ==
  IF dt.d < DaysInMonth(dt.y, dt.m) THEN Date(dt.y, dt.m, dt.d + 1)
  ELSE IF dt.m < 12 THEN Date(dt.y, dt.m + 1, 1)
  ELSE Date(dt.y + 1, 1, 1)

\* date + timedelta(days = n), n >= 0
RECURSIVE AddDays(_, _)
AddDays(dt, n) == IF n = 0 THEN dt ELSE AddDays(NextDay(dt), n - 1)

\* (a - b).days
DaysBetween(a, b) == toordinal(a) - toordinal(b)

\* a < b on dates
DateLess(a, b) == toordinal(a) < toordinal(b)

\* date.replace(year = y): raises ValueError when the day does not exist in y
replace_year(dt, y) ==
  IF ValidDate(y, dt.m, dt.d) THEN Ok(Date(y, dt.m, dt.d), PyNone)
  ELSE Raise("ValueError", PyNone)

TwoDigits(n) == <<DigitChar(n \div 10), DigitChar(n % 10)>>

FourDigits(n) ==
  <<DigitChar(n \div 1000), DigitChar((n \div 100) % 10),
    DigitChar((n \div 10) % 10), DigitChar(n % 10)>>

\* date.strftime("%d.%m.%Y"), for the four-digit years the model reaches
date_to_string(dt) ==
  TwoDigits(dt.d) \o <<".">> \o TwoDigits(dt.m) \o <<".">> \o FourDigits(dt.y)

\* does s[i .. i+9] match \d{2}\.\d{2}\.\d{4}
MatchesAt(s, i) ==
  /\ i + 9 <= Len(s)
  /\ \A k \in {0, 1, 3, 4, 6, 7, 8, 9} : s[i + k] \in Digits
  /\ s[i + 2] = "." /\ s[i + 5] = "."

\* re.search(pattern, value): the leftmost match, or None
re_search(s) ==
  LET hits == {i \in 1..Len(s) : MatchesAt(s, i)}
  IN  IF hits = {} THEN PyNone
      ELSE LET i == CHOOSE j \in hits : \A k \in hits : j <= k
           IN  Str(SubSeq(s, i, i + 9))

\* datetime.strptime(s, "%d.%m.%Y").date() on a matched DD.MM.YYYY text
string_to_date(s) ==
  LET d == DigitVal(s[1]) * 10 + DigitVal(s[2])
      m == DigitVal(s[4]) * 10 + DigitVal(s[5])
      y == DigitVal(s[7]) * 1000 + DigitVal(s[8]) * 100
             + DigitVal(s[9]) * 10 + DigitVal(s[10])
  IN  IF ValidDate(y, m, d) THEN Ok(Date(y, m, d), PyNone)
      ELSE Raise("ValueError", PyNone)

find_next_weekday(start_date, wd) ==
  LET days_ahead == wd - weekday(start_date)
  IN  AddDays(start_date, IF days_ahead <= 0 THEN days_ahead + 7 ELSE days_ahead)

\* adjust_for_weekend with the weekend test off by one: a Saturday is kept
adjust_for_weekend_SaturdayKept(birthday) ==
  IF weekday(birthday) > 5 THEN find_next_weekday(birthday, 0) ELSE birthday

adjust_for_weekend(birthday) ==
  IF weekday(birthday) >= 5 THEN find_next_weekday(birthday, 0) ELSE birthday

(***************************************************************************)
(* Field, Name, Phone, Birthday                                            *)
(***************************************************************************)
Field(cls, v) == [cls |-> cls, value |-> v]

\* Field.__eq__(self, other)
Field_eq(self, other) ==
  IF other.cls \in FieldClasses THEN self.value = other.value ELSE FALSE

\* Name(value): Field.__init__ unchanged, no validation
Name(value) == Ok(Field("Name", value), PyNone)

\* Phone(value)
Phone(value) ==
  IF Len(value) = 10 /\ isdecimal(value) THEN Ok(Field("Phone", value), PyNone)
  ELSE Raise("WrongFormatOfField", PyNone)

NoneText == <<"N", "o", "n", "e">>

\* Birthday(value)
Birthday(value) ==
  IF value # NoneText
  THEN LET match == re_search(value)
       IN  IF match.cls # "NoneType"
           THEN LET parsed == string_to_date(match.value)
                IN  IF parsed.status = "ok"
                    THEN Ok(Field("Birthday", parsed.value), PyNone)
                    ELSE Raise("ValueError", PyNone)
           ELSE Raise("ValueError", PyNone)
  ELSE Ok(Field("Birthday", PyNone), PyNone)

\* Birthday.__str__ and str(None)
Birthday_str(b) ==
  IF b.cls = "NoneType" THEN NoneText
  ELSE IF b.value.cls = "date" THEN date_to_string(b.value) ELSE NoneText

\* truth value of a Python object
Truthy(v) ==
  CASE v.cls = "NoneType" -> FALSE
    [] v.cls = "str" -> Len(v.value) > 0
    [] v.cls = "list" -> Len(v.items) > 0
    [] OTHER -> TRUE

PyList(items) == [cls |-> "list", items |-> items]

(***************************************************************************)
(* Record                                                                  *)
(***************************************************************************)
\* index of the first element of phones equal (==) to x, 0 when there is none
FirstEq(phones, x) ==
  LET hits == {i \in 1..Len(phones) : Field_eq(phones[i], x)}
  IN  IF hits = {} THEN 0 ELSE CHOOSE i \in hits : \A k \in hits : i <= k

RemoveAt(s, i) == SubSeq(s, 1, i - 1) \o SubSeq(s, i + 1, Len(s))

\* Record(name, phones = None, birthday = None); name is a text, phones is
\* None or a list of texts, birthday is None or a text
Record(name, phones, birthday) ==
  LET texts == IF Truthy(phones) THEN phones.items ELSE <<>>
      bad   == \E i \in 1..Len(texts) : Phone(texts[i]).status = "raise"
      bday  == IF Truthy(birthday) THEN Birthday(birthday.value)
               ELSE Ok(PyNone, PyNone)
  IN  IF bad THEN Raise("WrongFormatOfField", PyNone)
      ELSE IF bday.status = "raise" THEN Raise("ValueError", PyNone)
      ELSE Ok([cls      |-> "Record",
               name     |-> Name(name).value,
               phones   |-> [i \in 1..Len(texts) |-> Phone(texts[i]).value],
               birthday |-> bday.value], PyNone)

\* add_phone that appends before it validates
Record_add_phone_AppendFirst(self, phone) ==
  LET p == Phone(phone)
  IN  IF p.status = "raise"
      THEN Raise(p.exc, [self EXCEPT !.phones = Append(@, Field("Phone", phone))])
      ELSE Ok(PyNone, [self EXCEPT !.phones = Append(@, p.value)])

\* Record.add_phone(phone)
Record_add_phone(self, phone) ==
  LET p == Phone(phone)
  IN  IF p.status = "raise" THEN Raise(p.exc, self)
      ELSE Ok(PyNone, [self EXCEPT !.phones = Append(@, p.value)])

\* Record.remove_phone(phone); phone is any object (a text or a Phone)
Record_remove_phone(self, phone) ==
  LET i == FirstEq(self.phones, phone)
  IN  IF i # 0 THEN Ok(PyNone, [self EXCEPT !.phones = RemoveAt(@, i)])
      ELSE Raise("ValueError", self)

\* Record.find_phone(number): Phone(number) is built once per phone visited
Record_find_phone(self, number) ==
  IF Len(self.phones) = 0 THEN Ok(PyNone, self)
  ELSE LET p == Phone(number)
       IN  IF p.status = "raise" THEN Raise(p.exc, self)
           ELSE LET i == FirstEq(self.phones, p.value)
                IN  Ok(IF i = 0 THEN PyNone ELSE self.phones[i], self)

\* edit_phone that adds the new number and leaves the old one
Record_edit_phone_OldKept(self, old_number, new_number) ==
  LET found == Record_find_phone(self, old_number)
  IN  IF found.status = "raise" THEN Raise(found.exc, self)
      ELSE IF ~Truthy(found.value) THEN Raise("ValueError", self)
      ELSE Record_add_phone(self, new_number)

\* Record.edit_phone(old_number, new_number)
Record_edit_phone(self, old_number, new_number) ==
  LET found == Record_find_phone(self, old_number)
  IN  IF found.status = "raise" THEN Raise(found.exc, self)
      ELSE IF ~Truthy(found.value) THEN Raise("ValueError", self)
      ELSE LET added == Record_add_phone(self, new_number)
           IN  IF added.status = "raise" THEN Raise(added.exc, added.self)
               ELSE Record_remove_phone(added.self, found.value)

\* Record.add_birthday(birthday)
Record_add_birthday(self, birthday) ==
  LET b == Birthday(birthday)
  IN  IF b.status = "raise" THEN Raise(b.exc, self)
      ELSE Ok(PyNone, [self EXCEPT !.birthday = b.value])

(***************************************************************************)
(* AddressBook: self.data is a dict, modelled as the sequence of its       *)
(* (key, record) items in insertion order.                                 *)
(***************************************************************************)
Keys(d) == {d[i].key : i \in 1..Len(d)}

IndexOf(d, k) == CHOOSE i \in 1..Len(d) : d[i].key = k

\* d[k]
DictGet(d, k) == d[IndexOf(d, k)].rec

\* d[k] = r: a present key keeps its place, a new key goes last
DictSet(d, k, r) ==
  IF k \in Keys(d) THEN [d EXCEPT ![IndexOf(d, k)].rec = r]
  ELSE Append(d, [key |-> k, rec |-> r])

\* del d[k]
DictDel(d, k) == RemoveAt(d, IndexOf(d, k))

\* add_record without the test for a present name
add_record_NoCheck(d, record) == Ok(PyNone, DictSet(d, record.name.value, record))

\* AddressBook.add_record(record)
add_record(d, record) ==
  IF ~(record.name.value \in Keys(d))
  THEN Ok(PyNone, DictSet(d, record.name.value, record))
  ELSE Raise("ValueError", d)

\* AddressBook.update_record(record)
update_record(d, record) ==
  IF record.name.value \in Keys(d)
  THEN Ok(PyNone, DictSet(d, record.name.value, record))
  ELSE Raise("ValueError", d)

\* AddressBook.find(name)
find(d, name) ==
  IF name \in Keys(d) THEN Ok(DictGet(d, name), d) ELSE Raise("ValueError", d)

\* AddressBook.check_record(record)
check_record(d, record) == record \in Keys(d)

\* AddressBook.delete(name)
delete(d, name) ==
  IF name \in Keys(d) THEN Ok(PyNone, DictDel(d, name)) ELSE Raise("KeyError", d)

\* the loop of get_upcoming_birthdays from item i on, with the list built so far
RECURSIVE upcoming_from(_, _, _, _, _)
upcoming_from(d, i, days, today, upcoming) ==
  IF i > Len(d) THEN Ok(PyList(upcoming), d)
  ELSE
    LET key == d[i].key
        record == d[i].rec
    IN  IF record.birthday.cls = "NoneType" THEN Raise("AttributeError", d)
        ELSE IF ~Truthy(record.birthday.value)
        THEN upcoming_from(d, i + 1, days, today, upcoming)
        ELSE
          LET this_year == replace_year(record.birthday.value, today.y)
          IN  IF this_year.status = "raise" THEN Raise("ValueError", d)
              ELSE
                LET occurrence ==
                      IF DateLess(this_year.value, today)
                      THEN replace_year(record.birthday.value, today.y + 1)
                      ELSE this_year
                IN  IF occurrence.status = "raise" THEN Raise("ValueError", d)
                    ELSE IF /\ 0 <= DaysBetween(occurrence.value, today)
                            /\ DaysBetween(occurrence.value, today) <= days
                    THEN upcoming_from(d, i + 1, days, today,
                           Append(upcoming,
                             [name |-> key,
                              birthday |->
                                date_to_string(adjust_for_weekend(occurrence.value))]))
                    ELSE upcoming_from(d, i + 1, days, today, upcoming)

\* AddressBook.get_upcoming_birthdays(days), with today = date.today()
get_upcoming_birthdays(d, days, today) == upcoming_from(d, 1, days, today, <<>>)

(***************************************************************************)
(* The dispatcher's commands.  A record returned by find is the stored     *)
(* object: what a method does to it is done to the directory's record      *)
(* (Stored), before and without update_record.                             *)
(***************************************************************************)
Stored(d, name, record) == DictSet(d, name, record)

\* input_error: an exception becomes the returned text "<e> error"
input_error(r) ==
  IF r.status = "raise" THEN [r EXCEPT !.status = "error"] ELSE r

Text(t) == Str(<<t>>)

\* add_contact(args, contacts), args = [name, phone]
add_contact(d, name, phone) ==
  IF check_record(d, name)
  THEN LET record == find(d, name).value
           added  == Record_add_phone(record, phone)
           d1     == Stored(d, name, added.self)
       IN  IF added.status = "raise" THEN Raise(added.exc, d1)
           ELSE LET updated == update_record(d1, added.self)
                IN  IF updated.status = "raise" THEN updated
                    ELSE Ok(Text("Contact updated"), updated.self)
  ELSE LET record == Record(name, PyNone, PyNone).value
           added  == Record_add_phone(record, phone)
       IN  IF added.status = "raise" THEN Raise(added.exc, d)
           ELSE LET stored == add_record(d, added.self)
                IN  IF stored.status = "raise" THEN stored
                    ELSE Ok(Text("Contact added."), stored.self)

\* change_contact(args, contacts), args = [name, old_phone, new_phone]
change_contact(d, name, old_phone, new_phone) ==
  LET found == find(d, name)
  IN  IF found.status = "raise" THEN found
      ELSE LET edited == Record_edit_phone(found.value, old_phone, new_phone)
               d1     == Stored(d, name, edited.self)
           IN  IF edited.status = "raise" THEN Raise(edited.exc, d1)
               ELSE LET updated == update_record(d1, edited.self)
                    IN  IF updated.status = "raise" THEN updated
                        ELSE Ok(Text("Contact changed."), updated.self)

\* show_phone(args, contacts), args = [name]
show_phone(d, name) ==
  LET found == find(d, name)
  IN  IF found.status = "raise" THEN found
      ELSE Ok(PyList([i \in 1..Len(found.value.phones) |->
                        found.value.phones[i].value]), d)

\* add_birthday(args, book), args = [name, birthday]
add_birthday(d, name, birthday) ==
  LET found == find(d, name)
  IN  IF found.status = "raise" THEN found
      ELSE LET set == Record_add_birthday(found.value, birthday)
               d1  == Stored(d, name, set.self)
           IN  IF set.status = "raise" THEN Raise(set.exc, d1)
               ELSE LET updated == update_record(d1, set.self)
                    IN  IF updated.status = "raise" THEN updated
                        ELSE Ok(Text("Contact updated"), updated.self)

\* show_birthday(args, book), args = [name]
show_birthday(d, name) ==
  LET found == find(d, name)
  IN  IF found.status = "raise" THEN found
      ELSE Ok([cls |-> "shown", name |-> found.value.name.value,
               birthday |-> Birthday_str(found.value.birthday)], d)

\* birthdays(args, book): get_upcoming_birthdays() with the default days
DefaultDays == 7

birthdays(d, today) == get_upcoming_birthdays(d, DefaultDays, today)

(***************************************************************************)
(* The state: data is the address book's dict; call and ret record the     *)
(* last call made and what it returned or raised.                          *)
(***************************************************************************)
Call(op, name, x, y, today, days) ==
  [op |-> op, name |-> name, x |-> x, y |-> y, today |-> today, days |-> days]

Result(r) == [status |-> r.status, exc |-> r.exc, value |-> r.value]

\* an operation of the address book or a command: r.self is the dict after it
Book(c, r) ==
  /\ data' = r.self
  /\ call' = c
  /\ ret'  = Result(r)

\* a method called on the record stored under name: r.self is that record after it
OnRecord(c, name, r) ==
  /\ data' = Stored(data, name, r.self)
  /\ call' = c
  /\ ret'  = Result(r)

Init ==
  /\ data = <<>>
  /\ call = Call("AddressBook", "-", PyNone, PyNone, PyNone, 0)
  /\ ret  = Result(Ok(PyNone, PyNone))

PhonesOf(name) == DictGet(data, name).phones

\* a call that would grow a phones list beyond the bound is not made
Room(name) == name \in Keys(data) => Len(PhonesOf(name)) < MaxPhones

DoRecord(name, phones, birthday) ==
  /\ UNCHANGED data
  /\ call' = Call("Record", name, phones, birthday, PyNone, 0)
  /\ ret'  = Result(Record(name, phones, birthday))

DoAddRecord(name, phones, birthday) ==
  /\ Record(name, phones, birthday).status = "ok"
  /\ LET record == Record(name, phones, birthday).value
     IN  Book(Call("add_record", name, record, PyNone, PyNone, 0),
              add_record(data, record))

DoUpdateRecord(name, phones, birthday) ==
  /\ Record(name, phones, birthday).status = "ok"
  /\ LET record == Record(name, phones, birthday).value
     IN  Book(Call("update_record", name, record, PyNone, PyNone, 0),
              update_record(data, record))

DoFind(name) ==
  Book(Call("find", name, PyNone, PyNone, PyNone, 0), find(data, name))

DoDelete(name) ==
  Book(Call("delete", name, PyNone, PyNone, PyNone, 0), delete(data, name))

DoGetUpcomingBirthdays(days, today) ==
  Book(Call("get_upcoming_birthdays", "-", PyNone, PyNone, today, days),
       get_upcoming_birthdays(data, days, today))

DoRecordAddPhone(name, phone) ==
  /\ name \in Keys(data)
  /\ Room(name)
  /\ OnRecord(Call("Record.add_phone", name, Str(phone), PyNone, PyNone, 0),
              name, Record_add_phone(DictGet(data, name), phone))

DoRecordRemovePhone(name, phone) ==
  /\ name \in Keys(data)
  /\ OnRecord(Call("Record.remove_phone", name, phone, PyNone, PyNone, 0),
              name, Record_remove_phone(DictGet(data, name), phone))

DoRecordEditPhone(name, old_number, new_number) ==
  /\ name \in Keys(data)
  /\ OnRecord(Call("Record.edit_phone", name, Str(old_number), Str(new_number),
                   PyNone, 0),
              name, Record_edit_phone(DictGet(data, name), old_number, new_number))

DoRecordFindPhone(name, number) ==
  /\ name \in Keys(data)
  /\ OnRecord(Call("Record.find_phone", name, Str(number), PyNone, PyNone, 0),
              name, Record_find_phone(DictGet(data, name), number))

DoRecordAddBirthday(name, birthday) ==
  /\ name \in Keys(data)
  /\ OnRecord(Call("Record.add_birthday", name, Str(birthday), PyNone, PyNone, 0),
              name, Record_add_birthday(DictGet(data, name), birthday))

DoAddContact(name, phone) ==
  /\ Room(name)
  /\ Book(Call("add", name, Str(phone), PyNone, PyNone, 0),
          input_error(add_contact(data, name, phone)))

DoChangeContact(name, old_phone, new_phone) ==
  Book(Call("change", name, Str(old_phone), Str(new_phone), PyNone, 0),
       input_error(change_contact(data, name, old_phone, new_phone)))

DoShowPhone(name) ==
  Book(Call("phone", name, PyNone, PyNone, PyNone, 0),
       input_error(show_phone(data, name)))

DoAddBirthday(name, birthday) ==
  Book(Call("add-birthday", name, Str(birthday), PyNone, PyNone, 0),
       input_error(add_birthday(data, name, birthday)))

DoShowBirthday(name) ==
  Book(Call("show-birthday", name, PyNone, PyNone, PyNone, 0),
       input_error(show_birthday(data, name)))

DoBirthdays(today) ==
  Book(Call("birthdays", "-", PyNone, PyNone, today, DefaultDays),
       input_error(birthdays(data, today)))

(***************************************************************************)
(* Inputs.                                                                 *)
(***************************************************************************)
P1 == <<"0", "6", "7", "1", "2", "3", "4", "5", "6", "7">>
P2 == <<"0", "5", "0", "7", "6", "5", "4", "3", "2", "1">>
\* nine digits
BadShort == <<"0", "6", "7", "1", "2", "3", "4", "5", "6">>
\* ten characters, one of them no digit
BadAlpha == <<"0", "6", "7", "1", "2", "3", "4", "5", "6", "x">>

T_16_03_1990 == <<"1", "6", ".", "0", "3", ".", "1", "9", "9", "0">>
T_15_03_2024 == <<"1", "5", ".", "0", "3", ".", "2", "0", "2", "4">>
T_01_01_1990 == <<"0", "1", ".", "0", "1", ".", "1", "9", "9", "0">>
T_29_02_2024 == <<"2", "9", ".", "0", "2", ".", "2", "0", "2", "4">>
\* no such day
T_31_04_2000 == <<"3", "1", ".", "0", "4", ".", "2", "0", "0", "0">>
\* no DD.MM.YYYY in it
T_16_3_1990 == <<"1", "6", ".", "3", ".", "1", "9", "9", "0">>
\* a DD.MM.YYYY inside a longer text
T_on_15_03_2024 == <<"o", "n", " ">> \o T_15_03_2024

Names == {"", "Alice"}

\* the texts given as phone numbers to the address book as a whole
BookPhoneTexts == {P1, BadShort}

BirthdayTexts == {T_16_03_1990, T_31_04_2000}

\* the phones argument of Record(...)
PhoneLists == {PyNone, PyList(<<P1>>), PyList(<<P1, BadAlpha>>)}

\* the birthday argument of Record(...)
BirthdayArgs == {PyNone} \cup {Str(t) : t \in BirthdayTexts}

\* what remove_phone is called with: a text, or a Phone as edit_phone passes it
RemoveArgs(texts) ==
  {Str(t) : t \in texts} \cup {Field("Phone", t) : t \in texts \cap {P1, P2}}

Next ==
  \/ \E n \in Names, ps \in PhoneLists, b \in BirthdayArgs : DoRecord(n, ps, b)
  \/ \E n \in Names, ps \in PhoneLists, b \in BirthdayArgs : DoAddRecord(n, ps, b)
  \/ \E n \in Names, ps \in PhoneLists, b \in BirthdayArgs : DoUpdateRecord(n, ps, b)
  \/ \E n \in Names : DoFind(n)
  \/ \E n \in Names : DoDelete(n)
  \/ \E n \in Names, t \in BookPhoneTexts : DoRecordAddPhone(n, t)
  \/ \E n \in Names, x \in RemoveArgs(BookPhoneTexts) : DoRecordRemovePhone(n, x)
  \/ \E n \in Names, old \in BookPhoneTexts, new \in BookPhoneTexts :
       DoRecordEditPhone(n, old, new)
  \/ \E n \in Names, t \in BookPhoneTexts : DoRecordFindPhone(n, t)
  \/ \E n \in Names, t \in BirthdayTexts : DoRecordAddBirthday(n, t)
  \/ \E n \in Names, t \in BookPhoneTexts : DoAddContact(n, t)
  \/ \E n \in Names, old \in BookPhoneTexts, new \in BookPhoneTexts :
       DoChangeContact(n, old, new)
  \/ \E n \in Names : DoShowPhone(n)
  \/ \E n \in Names, t \in BirthdayTexts : DoAddBirthday(n, t)
  \/ \E n \in Names : DoShowBirthday(n)

\* the address book driven through records, directory operations and commands
Spec == Init /\ [][Next]_vars

RecordNames == {"Alice"}

PhoneTexts == {P1, P2, BadShort, BadAlpha}

RecordPhoneLists == {PyNone, PyList(<<P1>>), PyList(<<P2, P1>>)}

NextRecord ==
  \/ \E n \in RecordNames, ps \in RecordPhoneLists : DoAddRecord(n, ps, PyNone)
  \/ \E n \in RecordNames : DoDelete(n)
  \/ \E n \in RecordNames, t \in PhoneTexts : DoRecordAddPhone(n, t)
  \/ \E n \in RecordNames, x \in RemoveArgs(PhoneTexts) : DoRecordRemovePhone(n, x)
  \/ \E n \in RecordNames, old \in PhoneTexts, new \in PhoneTexts :
       DoRecordEditPhone(n, old, new)
  \/ \E n \in RecordNames, t \in PhoneTexts : DoRecordFindPhone(n, t)

\* one record driven through its phone methods
SpecRecord == Init /\ [][NextRecord]_vars

BirthdayNames == {"Alice", "Bob"}

ScheduleTexts ==
  {NoneText, T_16_03_1990, T_15_03_2024, T_01_01_1990, T_29_02_2024,
   T_31_04_2000, T_16_3_1990, T_on_15_03_2024}

\* values of date.today()
Todays ==
  {Date(2024, 3, 10), Date(2024, 3, 20), Date(2024, 12, 28),
   Date(2024, 2, 25), Date(2024, 3, 1), Date(2025, 3, 10)}

Windows == {0, 5, 6, 7}

NextBirthdays ==
  \/ \E n \in BirthdayNames : DoAddContact(n, P1)
  \/ \E n \in BirthdayNames, t \in ScheduleTexts : DoAddBirthday(n, t)
  \/ \E n \in BirthdayNames : DoShowBirthday(n)
  \/ \E n \in BirthdayNames : DoDelete(n)
  \/ \E t \in Todays : DoBirthdays(t)
  \/ \E w \in Windows, t \in Todays : DoGetUpcomingBirthdays(w, t)

\* the address book driven through the birthday commands and the query
SpecBirthdays == Init /\ [][NextBirthdays]_vars

(***************************************************************************)
(* Vocabulary of the claims.                                               *)
(***************************************************************************)
QueryOps == {"get_upcoming_birthdays", "birthdays"}

\* the call made last returned normally
Returned == ret.status = "ok"

\* the call made last signalled an error: it raised, or the command returned
\* its error text
Signalled == ret.status \in {"raise", "error"}

\* a record's birthday attribute holds a date
Present(b) == b.cls = "Birthday" /\ b.value.cls = "date"

\* the month/day of b in today's year, or in the next year when that is
\* strictly before today
Occurrence(b, today) ==
  LET this == Date(today.y, b.m, b.d)
  IN  IF DateLess(this, today) THEN Date(today.y + 1, b.m, b.d) ELSE this

\* the occurrence is a day of the calendar
OccurrenceDefined(b, today) ==
  /\ ValidDate(today.y, b.m, b.d)
  /\ DateLess(Date(today.y, b.m, b.d), today) => ValidDate(today.y + 1, b.m, b.d)

InWindow(b, today, days) ==
  /\ 0 <= DaysBetween(Occurrence(b, today), today)
  /\ DaysBetween(Occurrence(b, today), today) <= days

\* the result of the query made last has an entry for the key
Included(k) ==
  /\ Returned
  /\ \E j \in 1..Len(ret.value.items) : ret.value.items[j].name = k

LeapDay(b) == Present(b) /\ b.value.m = 2 /\ b.value.d = 29

(***************************************************************************)
(* C1.  upcoming_birthdays completes without signalling an error, and its  *)
(* result has no entry for a record whose birthday is absent, in every     *)
(* reachable directory -- with records made without a birthday argument,   *)
(* as the add command makes them, and records whose birthday was set from  *)
(* the text None.  Stated here for the directories that hold no 29         *)
(* February birthday, which C10 is about.                                  *)
(***************************************************************************)
C1_AbsentBirthdaysSkipped ==
  (call.op \in QueryOps /\ \A i \in 1..Len(data) : ~LeapDay(data[i].rec.birthday))
    => /\ Returned
       /\ \A j \in 1..Len(ret.value.items) :
            Present(DictGet(data, ret.value.items[j].name).birthday)

(***************************************************************************)
(* C2.  For every record with a present birthday, every today and every    *)
(* window, upcoming_birthdays includes the record if and only if           *)
(* 0 <= delta <= window_days, delta being the days from today to the       *)
(* unshifted occurrence.  Stated for the records whose occurrence is a day *)
(* of the calendar.                                                        *)
(***************************************************************************)
C2_IncludedIffInWindow ==
  call.op \in QueryOps =>
    \A i \in 1..Len(data) :
      LET b == data[i].rec.birthday
      IN  (Present(b) /\ OccurrenceDefined(b.value, call.today))
            => (Included(data[i].key) <=> InWindow(b.value, call.today, call.days))

\* the same for the calls that return a list: the filter itself is as C2 says
C2_FilterWhenReturned ==
  (call.op \in QueryOps /\ Returned) => C2_IncludedIffInWindow

(***************************************************************************)
(* C3.  Every entry upcoming_birthdays returns reports the occurrence when *)
(* that is a Monday to Friday, the occurrence + 2 days when it is a        *)
(* Saturday and + 1 day when it is a Sunday; the reported date is never a  *)
(* Saturday or Sunday, and is a Monday when it was shifted.                *)
(***************************************************************************)
C3_ReportedDate ==
  (call.op \in QueryOps /\ Returned) =>
    \A j \in 1..Len(ret.value.items) :
      LET entry    == ret.value.items[j]
          b        == DictGet(data, entry.name).birthday.value
          occ      == Occurrence(b, call.today)
          expected == IF weekday(occ) = 5 THEN AddDays(occ, 2)
                      ELSE IF weekday(occ) = 6 THEN AddDays(occ, 1)
                      ELSE occ
          reported == string_to_date(entry.birthday)
      IN  /\ entry.birthday = date_to_string(expected)
          /\ reported.status = "ok"
          /\ weekday(reported.value) \notin {5, 6}
          /\ weekday(occ) >= 5 => weekday(reported.value) = 0

\* a returned list with an entry for a Saturday and one for a Sunday occurrence
C3_Witness ==
  /\ call.op \in QueryOps
  /\ Returned
  /\ \E j, k \in 1..Len(ret.value.items) :
       /\ weekday(Occurrence(DictGet(data, ret.value.items[j].name).birthday.value,
                             call.today)) = 5
       /\ weekday(Occurrence(DictGet(data, ret.value.items[k].name).birthday.value,
                             call.today)) = 6

(***************************************************************************)
(* C10.  get_upcoming_birthdays returns a list and does not raise, for     *)
(* every today, when every present birthday is a valid date -- a birthday  *)
(* of 29 February included.  Stated here for the directories whose records *)
(* all hold a Birthday, which leaves out the records C1 is about.          *)
(***************************************************************************)
C10_NeverRaises ==
  (call.op \in QueryOps /\ \A i \in 1..Len(data) : data[i].rec.birthday.cls = "Birthday")
    => Returned

(***************************************************************************)
(* C4.  add(record) with a name not yet present inserts the record, and an *)
(* immediate find(name) returns that record; add(record) with a name       *)
(* already present fails and leaves the key set and the stored record      *)
(* unchanged; there is at most one record per name at any time.            *)
(***************************************************************************)
UniqueKeys(d) == \A i, j \in 1..Len(d) : d[i].key = d[j].key => i = j

C4_AddThenFind ==
  [][/\ UniqueKeys(data')
     /\ call'.op = "add_record" =>
          IF call'.name \in Keys(data)
          THEN /\ ret'.status = "raise"
               /\ data' = data
          ELSE /\ ret'.status = "ok"
               /\ Keys(data') = Keys(data) \cup {call'.name}
               /\ find(data', call'.name).status = "ok"
               /\ find(data', call'.name).value = call'.x]_vars

\* an add refused for its name, while another record is stored under the name
C4_Witness ==
  /\ call.op = "add_record"
  /\ ret.status = "raise"
  /\ call.name \in Keys(data)
  /\ DictGet(data, call.name) # call.x

(***************************************************************************)
(* C8.  Creating a record with an empty name fails, so that no record with *)
(* an empty name exists or is stored in a directory; creation with a       *)
(* malformed phone or birthday fails too, and otherwise the record holds   *)
(* the given phones in the listed order.                                   *)
(***************************************************************************)
Malformed(phones, birthday) ==
  \/ /\ phones.cls = "list"
     /\ \E i \in 1..Len(phones.items) : Phone(phones.items[i]).status = "raise"
  \/ /\ birthday.cls = "str"
     /\ Birthday(birthday.value).status = "raise"

C8_RecordCreation ==
  /\ ~("" \in Keys(data))
  /\ call.op = "Record" =>
       IF call.name = "" \/ Malformed(call.x, call.y)
       THEN ret.status = "raise"
       ELSE /\ ret.status = "ok"
            /\ LET texts == IF call.x.cls = "list" THEN call.x.items ELSE <<>>
               IN  [i \in 1..Len(ret.value.phones) |-> ret.value.phones[i].value] = texts

(***************************************************************************)
(* C9.  Failure is atomic: when a record operation, a directory operation  *)
(* or a command signals an error, the directory's keys and every stored    *)
(* record's phones and birthday are what they were before the call.        *)
(***************************************************************************)
AtomicOps ==
  {"Record.add_phone", "Record.remove_phone", "Record.edit_phone",
   "Record.add_birthday", "add_record", "update_record", "find", "delete",
   "add", "change", "phone", "add-birthday", "show-birthday"}

C9_FailureIsAtomic ==
  [][(call'.op \in AtomicOps /\ Signalled') => data' = data]_vars

\* a change command that found the old number and was refused for the new one
C9_Witness ==
  /\ call.op = "change"
  /\ Signalled
  /\ ret.exc = "WrongFormatOfField"
  /\ call.name \in Keys(data)
  /\ \E i \in 1..Len(PhonesOf(call.name)) : PhonesOf(call.name)[i].value = call.x.value

(***************************************************************************)
(* C5.  As claimed: whenever edit_phone(record, old_number, new_number)    *)
(* succeeds, a following find_phone(new_number) returns a phone and a      *)
(* following find_phone(old_number) returns the not-found sentinel -- for  *)
(* every phones sequence, one that holds old_number more than once and the *)
(* case old_number = new_number included.                                  *)
(***************************************************************************)
Finds(record, number) ==
  /\ Record_find_phone(record, number).status = "ok"
  /\ Record_find_phone(record, number).value.cls = "Phone"

FindsNothing(record, number) ==
  /\ Record_find_phone(record, number).status = "ok"
  /\ Record_find_phone(record, number).value = PyNone

C5_EditThenFind ==
  (call.op = "Record.edit_phone" /\ Returned) =>
    /\ Finds(DictGet(data, call.name), call.y.value)
    /\ FindsNothing(DictGet(data, call.name), call.x.value)

(***************************************************************************)
(* C5, amended.  Whenever edit_phone(record, old_number, new_number)       *)
(* succeeds, a following find_phone(new_number) returns a phone; a         *)
(* following find_phone(old_number) returns the not-found sentinel exactly *)
(* when old_number # new_number and the phones sequence held old_number    *)
(* once before the call.                                                   *)
(***************************************************************************)
Count(phones, number) ==
  Cardinality({i \in 1..Len(phones) : phones[i].value = number})

C5_EditThenFindAmended ==
  [][(call'.op = "Record.edit_phone" /\ ret'.status = "ok") =>
       /\ Finds(DictGet(data', call'.name), call'.y.value)
       /\ FindsNothing(DictGet(data', call'.name), call'.x.value)
            <=> /\ call'.x.value # call'.y.value
                /\ Count(DictGet(data, call'.name).phones, call'.x.value) = 1]_vars

\* an edit that replaced the one old number by another number
C5_Witness ==
  /\ call.op = "Record.edit_phone"
  /\ Returned
  /\ call.x.value # call.y.value
  /\ Finds(DictGet(data, call.name), call.y.value)
  /\ FindsNothing(DictGet(data, call.name), call.x.value)

(***************************************************************************)
(* C6.  remove_phone(record, number_text), called with the number as text, *)
(* succeeds whenever the phones sequence holds a phone of that value,      *)
(* removes the first such phone and leaves the others in their order; it   *)
(* fails only when no phone of that value is in the sequence.              *)
(***************************************************************************)
C6_RemoveByText ==
  [][(call'.op = "Record.remove_phone" /\ call'.x.cls = "str") =>
       LET phones == DictGet(data, call'.name).phones
           after  == DictGet(data', call'.name).phones
           hits   == {i \in 1..Len(phones) : phones[i].value = call'.x.value}
       IN  IF hits # {}
           THEN /\ ret'.status = "ok"
                /\ after = RemoveAt(phones, CHOOSE i \in hits : \A k \in hits : i <= k)
           ELSE /\ ret'.status = "raise"
                /\ after = phones]_vars

(***************************************************************************)
(* C7.  find_phone(record, number_text) never signals a failure: for every *)
(* record and every text, well-formed or not, it returns the first phone   *)
(* equal to the text or the not-found sentinel.                            *)
(***************************************************************************)
C7_FindPhoneNeverFails ==
  call.op = "Record.find_phone" =>
    /\ Returned
    /\ LET phones == PhonesOf(call.name)
           hits   == {i \in 1..Len(phones) : phones[i].value = call.x.value}
       IN  ret.value = IF hits = {} THEN PyNone
                       ELSE phones[CHOOSE i \in hits : \A k \in hits : i <= k]

====
